---- MODULE Spec2Model ----
(***************************************************************************)
(* Model of the bulk account lifecycle batch of dataverse_apis:            *)
(*   tasks/account/account_tasks.py      (breaker, key resolver, drivers)  *)
(*   features/account/account_operations.py   (lifecycle operations)       *)
(*   features/timeline/note_operations.py     (audit note helpers)         *)
(*   core/services/dataverse_client.py        (Gateway: call_dataverse)    *)
(*   core/auth/msal_auth.py                   (process-wide token cache)   *)
(*                                                                         *)
(* Text is a sequence of one-character strings, so that Python's           *)
(* substring test `"401" in error_msg` is computed and not assumed.        *)
(* An optional value (None or an absent dict key) is the empty set; a      *)
(* present value v is the singleton {v}.                                   *)
(***************************************************************************)
EXTENDS Integers, Sequences, FiniteSets, TLC

VARIABLES
    mode,        \* "deactivate" | "reactivate": which driver runs
    table,       \* the loaded input rows (df_loaded)
    df,          \* account_id column of the resolver's copy (df_with_ids)
    pc,          \* position of the driver
    i,           \* index of the row the current loop is about to process
    results,     \* the driver's outcome list
    calls,       \* every call_dataverse invocation of this run, in order
    cached,      \* msal_auth._cached_token holds an access token
    ckpt,        \* identifier checkpoint file (empty set: not written)
    report,      \* persisted outcome report (empty set: not written)
    halted,      \* stages whose breaker fired: subset of {"resolver", "loop"}
    resumed,     \* this run was started from the files of a halted run
    doneBefore,  \* rows whose lifecycle operation completed in the earlier run
    bResp,       \* input of the breaker predicate (pure-function check)
    bOut,        \* its verdict: {} before the call, {TRUE} or {FALSE} after
    source,      \* how the input was supplied, and whether the file exists
    bus_id_columns, \* "given": the caller names the key columns; "default":
                 \* the argument is None and "BUS ID" is the key column
    returned,    \* the DataFrame the driver returned (empty set: not yet)
    fnIn,        \* a function of the code and its arguments (pure-function check)
    fnOut        \* what it returned: {} before the call, {result} after

vars == <<mode, table, df, pc, i, results, calls, cached, ckpt, report,
          halted, resumed, doneBefore, bResp, bOut, source, bus_id_columns,
          returned,
          fnIn, fnOut>>

driverVars == <<mode, table, df, pc, i, results, calls, cached, ckpt, report,
                halted, resumed, doneBefore, source, bus_id_columns, returned>>

-----------------------------------------------------------------------------
(* Bounds *)

\* Number of rows of the input table.
MaxRows == 2

\* Longest error text handed to the breaker in the pure-function check.
MaxErrLen == 5

-----------------------------------------------------------------------------
(* Optional values and text *)

None == {}

Some(v) == {v}

Val(o) == CHOOSE v \in o : TRUE

\* Python truthiness of an optional text: None and "" are falsy.
Truthy(o) == o # None /\ Val(o) # <<>>

\* str(n) for a natural number n.
DigitChars == <<"0","1","2","3","4","5","6","7","8","9">>

RECURSIVE IntToStr(_)
IntToStr(n) ==
    IF n < 10 THEN <<DigitChars[n + 1]>>
    ELSE IntToStr(n \div 10) \o <<DigitChars[(n % 10) + 1]>>

\* Python `needle in hay` for str operands: leftmost scan.
RECURSIVE StrContains(_, _)
StrContains(hay, needle) ==
    IF Len(hay) < Len(needle) THEN FALSE
    ELSE IF SubSeq(hay, 1, Len(needle)) = needle THEN TRUE
    ELSE StrContains(Tail(hay), needle)

S401 == <<"4","0","1">>

S4010 == <<"4","0","1","0">>

MsgHttp == <<"H","T","T","P"," ">>

MsgUnauthorized ==
    <<"4","0","1"," ","U","n","a","u","t","h","o","r","i","z","e","d",":"," ",
      "a","c","c","e","s","s"," ","t","o","k","e","n"," ","e","x","p","i","r",
      "e","d"," ","o","r"," ","i","n","v","a","l","i","d">>

MsgNotFound ==
    <<"a","c","c","o","u","n","t","i","d"," ","n","o","t"," ","f","o","u","n","d">>

MsgTokenError ==
    <<"E","r","r","o","r"," ","g","e","t","t","i","n","g"," ","t","o","k","e",
      "n",":"," ">>

\* error_description values the identity provider may return (free text).
TokenErrorDescriptions ==
    { <<"d","e","n","i","e","d">>,
      <<"A","A","D","S","T","S","4","0","1">> }

-----------------------------------------------------------------------------
(* Circuit breaker: account_tasks._handle_expired_token *)

\* str(resp.get("error") or "")
ErrorMsgOf(resp) == IF Truthy(resp.error) THEN Val(resp.error) ELSE <<>>

\* Variant that looks at the numeric code only.
handle_expired_token_code_only(resp) == resp.status_code = Some(401)

\* Variant that compares the whole error text with "401".
handle_expired_token_exact(resp) ==
    \/ resp.status_code = Some(401)
    \/ ErrorMsgOf(resp) = S401

handle_expired_token(resp) ==
    \/ resp.status_code = Some(401)
    \/ StrContains(ErrorMsgOf(resp), S401)

-----------------------------------------------------------------------------
(* Token cache and Gateway: msal_auth, dataverse_client.call_dataverse *)

\* HTTP status codes the record store answers with.
HttpStatuses == {200, 401, 500}

\* What the world does to one call_dataverse invocation.  Token acquisition
\* can fail only while no token is cached (msal_auth.py:114-115 returns the
\* cached token before anything else); `found` is whether a GET query
\* matches a record (always FALSE for a PATCH, POST or DELETE).
\* `body_error` is a top-level "error" key of the JSON body of the response
\* (empty set: the body has none).
TokenFailures(isCached) ==
    IF isCached THEN {}
    ELSE [kind : {"token_fail"}, status : {0}, found : {FALSE},
          desc : TokenErrorDescriptions, body_error : {None}]

RemoteBehaviours(isCached) ==
    [kind : {"http"}, status : HttpStatuses, found : {FALSE}, desc : {<<>>},
     body_error : {None}]
    \cup TokenFailures(isCached)

QueryBehaviours(isCached) ==
    [kind : {"http"}, status : HttpStatuses, found : BOOLEAN, desc : {<<>>},
     body_error : {None}]
    \cup TokenFailures(isCached)

MsgUnexpected ==
    <<"U","n","e","x","p","e","c","t","e","d"," ","e","r","r","o","r",":"," ">>

\* str(e) of what the `except Exception` branch of call_dataverse catches: a
\* transport error of requests, or the ValueError for an unsupported method.
CaughtErrorTexts ==
    { <<"t","i","m","e","o","u","t">>,
      <<"H","T","T","P"," ","m","e","t","h","o","d"," ","n","o","t"," ",
        "s","u","p","p","o","r","t","e","d",":"," ","F","O","O">> }

\* Every way one invocation can go, for the checks of single functions:
\* also a failure inside the try block and a body with an "error" key.
GatewayBehaviours(isCached) ==
    [kind : {"http"}, status : HttpStatuses, found : BOOLEAN, desc : {<<>>},
     body_error : {None, Some(<<"x">>)}]
    \cup [kind : {"caught"}, status : {0}, found : {FALSE},
          desc : CaughtErrorTexts, body_error : {None}]
    \cup TokenFailures(isCached)

\* get_access_token_with_msal_default caches the token it acquires and
\* nothing ever clears it.
\* Variant that drops the cached token when the call is answered with 401.
get_access_token_dropped_on_401(isCached, b) ==
    (isCached \/ b.kind # "token_fail") /\ ~(b.kind = "http" /\ b.status = 401)

get_access_token_with_msal_default(isCached, b) ==
    isCached \/ b.kind # "token_fail"

\* Which token a call_dataverse invocation presents: the cached one, one it
\* has just acquired (and cached), or none because the token request failed
\* and no request was sent.
TokenUse(isCached, b) ==
    IF isCached THEN "cached"
    ELSE IF b.kind = "token_fail" THEN "failed"
    ELSE "fresh"

NoEnvelope == [status |-> "", status_code |-> None, error |-> None, value |-> <<>>]

\* Result of one invocation: either an exception (raised, with str(exc)) or
\* a normalized envelope.  `payloadValue` is the "value" list of the JSON body.
call_dataverse(b, payloadValue) ==
    IF b.kind = "token_fail"
    THEN [raised |-> TRUE, exc |-> MsgTokenError \o b.desc, env |-> NoEnvelope]
    ELSE IF b.kind = "caught"
    THEN [raised |-> FALSE, exc |-> <<>>,
          env |-> [status |-> "error", status_code |-> None,
                   error |-> Some(MsgUnexpected \o b.desc), value |-> <<>>]]
    ELSE IF b.status < 400
    THEN [raised |-> FALSE, exc |-> <<>>,
          env |-> [status |-> "success", status_code |-> Some(b.status),
                   error |-> b.body_error, value |-> payloadValue]]
    ELSE IF b.status = 401
    THEN [raised |-> FALSE, exc |-> <<>>,
          env |-> [status |-> "error", status_code |-> Some(401),
                   error |-> Some(MsgUnauthorized), value |-> <<>>]]
    ELSE [raised |-> FALSE, exc |-> <<>>,
          env |-> [status |-> "error", status_code |-> Some(b.status),
                   error |-> Some(MsgHttp \o IntToStr(b.status)), value |-> <<>>]]

-----------------------------------------------------------------------------
(* Identifiers *)

\* pandas NA / Python None in a cell of the table.
NA == "NA"

BusIds == <<"A", "B", "C", "D">>

\* The record store: the account whose accountnumber is the i-th bus id.
AccountIds == <<"id1", "id2", "id3", "id4">>

\* The store has an account for this key.
KnownBusId(busId) == \E k \in 1..Len(BusIds) : BusIds[k] = busId

AccountOf(busId) ==
    AccountIds[CHOOSE k \in 1..Len(BusIds) : BusIds[k] = busId]

\* annotationid of the deactivation note found on an account.
NoteIds == <<"n1", "n2", "n3", "n4">>

NoteOf(accountId) ==
    NoteIds[CHOOSE k \in 1..Len(AccountIds) : AccountIds[k] = accountId]

-----------------------------------------------------------------------------
(* Audit note helpers: note_operations.py *)

\* The dict create_account_note / delete_note_by_id return from their own
\* except branch: {"status": f"error: {e}", "code": 500}; it has no "error"
\* and no "status_code" key.
NoteHelperFailure ==
    [status |-> "error: ", status_code |-> None, error |-> None, value |-> <<>>]

create_account_note(b) ==
    LET r == call_dataverse(b, <<>>)
    IN  IF r.raised THEN NoteHelperFailure ELSE r.env

delete_note_by_id(b) ==
    LET r == call_dataverse(b, <<>>)
    IN  IF r.raised THEN NoteHelperFailure ELSE r.env

\* Returns the annotationid ({} when there is none or the lookup failed).
\* Variant that reports a note whatever the lookup returned.
find_last_deactivation_note_assumed(accountId, b) == Some(NoteOf(accountId))

find_last_deactivation_note_for_account(accountId, b) ==
    LET r == call_dataverse(b, IF b.found THEN <<NoteOf(accountId)>> ELSE <<>>)
    IN  IF r.raised THEN None
        ELSE IF r.env.value = <<>> THEN None
        ELSE Some(r.env.value[1])

-----------------------------------------------------------------------------
(* Lifecycle operations: account_operations.py *)

\* Each operation returns its result dict (`out`), the call_dataverse
\* invocations it made (`ops`) with the record or note each one addresses
\* (`args`), and the state of the token cache afterwards;
\* `raised` says whether an exception left the operation instead.
\* b1, b2, b3 are the behaviours of its first, second and third call.

\* Variant without the try/except around the stages.
deactivate_account_with_note_uncaught(accountId, isCached, b1, b2) ==
    LET r1 == call_dataverse(b1, <<>>)
    IN  [raised |-> r1.raised,
         out |-> [account_id |-> accountId, deactivated |-> ~r1.raised,
                  note_created |-> ~r1.raised, error |-> None,
                  status_code |-> None,
                  deactivate_response |-> IF r1.raised THEN None ELSE Some(r1.env),
                  note_response |-> IF r1.raised THEN None
                                    ELSE Some(create_account_note(b2))],
         ops |-> IF r1.raised THEN <<"state_change">>
                 ELSE <<"state_change", "note_create">>,
         args |-> IF r1.raised THEN <<accountId>>
                  ELSE <<accountId, accountId>>,
         cached |-> get_access_token_with_msal_default(isCached, b1)]

\* Variant that repeats the state-change call once when its envelope reports
\* an error.
deactivate_account_with_note_retry(accountId, isCached, b1, b2) ==
    LET r1 == call_dataverse(b1, <<>>)
        again == ~r1.raised /\ r1.env.status = "error"
    IN  [raised |-> FALSE,
         out |-> [account_id |-> accountId, deactivated |-> ~r1.raised,
                  note_created |-> ~r1.raised,
                  error |-> IF r1.raised THEN Some(r1.exc) ELSE None,
                  status_code |-> None,
                  deactivate_response |-> IF r1.raised THEN None ELSE Some(r1.env),
                  note_response |-> IF r1.raised THEN None
                                    ELSE Some(create_account_note(b2))],
         ops |-> IF r1.raised THEN <<"state_change">>
                 ELSE IF again
                 THEN <<"state_change", "state_change", "note_create">>
                 ELSE <<"state_change", "note_create">>,
         args |-> IF r1.raised THEN <<accountId>>
                  ELSE IF again THEN <<accountId, accountId, accountId>>
                  ELSE <<accountId, accountId>>,
         cached |-> get_access_token_with_msal_default(isCached, b1)]

deactivate_account_with_note(accountId, isCached, b1, b2) ==
    LET r1 == call_dataverse(b1, <<>>)
    IN  IF r1.raised
        THEN [raised |-> FALSE,
              out |-> [account_id |-> accountId, deactivated |-> FALSE,
                       note_created |-> FALSE, error |-> Some(r1.exc),
                       status_code |-> None,
                       deactivate_response |-> None, note_response |-> None],
              ops |-> <<"state_change">>,
              args |-> <<accountId>>,
              cached |-> get_access_token_with_msal_default(isCached, b1)]
        ELSE [raised |-> FALSE,
              out |-> [account_id |-> accountId, deactivated |-> TRUE,
                       note_created |-> TRUE, error |-> None,
                       status_code |-> None,
                       deactivate_response |-> Some(r1.env),
                       note_response |-> Some(create_account_note(b2))],
              ops |-> <<"state_change", "note_create">>,
              args |-> <<accountId, accountId>>,
              cached |-> TRUE]

\* `if not target_note_id`: no note identifier was supplied.
\* Variant that never trusts a supplied identifier.
NoNoteId_always(noteId) == TRUE

NoNoteId(noteId) == noteId = NA \/ noteId = ""

reactivate_account_and_delete_note(accountId, noteId, isCached, b1, b2, b3) ==
    LET r1 == call_dataverse(b1, <<>>)
        looked == NoNoteId(noteId)
        target == IF looked
                  THEN find_last_deactivation_note_for_account(accountId, b2)
                  ELSE Some(noteId)
        lookupOps == IF looked THEN <<"note_lookup">> ELSE <<>>
        lookupArgs == IF looked THEN <<accountId>> ELSE <<>>
    IN  IF r1.raised
        THEN [raised |-> FALSE,
              out |-> [account_id |-> accountId, reactivated |-> FALSE,
                       note_deleted |-> FALSE, error |-> Some(r1.exc),
                       status_code |-> None,
                       reactivate_response |-> None,
                       note_delete_response |-> None],
              ops |-> <<"state_change">>,
              args |-> <<accountId>>,
              cached |-> get_access_token_with_msal_default(isCached, b1)]
        ELSE IF target # None
        THEN [raised |-> FALSE,
              out |-> [account_id |-> accountId, reactivated |-> TRUE,
                       note_deleted |-> TRUE, error |-> None,
                       status_code |-> None,
                       reactivate_response |-> Some(r1.env),
                       note_delete_response |-> Some(delete_note_by_id(b3))],
              ops |-> <<"state_change">> \o lookupOps \o <<"note_delete">>,
              args |-> <<accountId>> \o lookupArgs \o <<Val(target)>>,
              cached |-> TRUE]
        ELSE [raised |-> FALSE,
              out |-> [account_id |-> accountId, reactivated |-> TRUE,
                       note_deleted |-> FALSE, error |-> None,
                       status_code |-> None,
                       reactivate_response |-> Some(r1.env),
                       note_delete_response |-> None],
              ops |-> <<"state_change">> \o lookupOps,
              args |-> <<accountId>> \o lookupArgs,
              cached |-> TRUE]

\* The resolver's query (imported by account_tasks.py:15 from
\* account_operations; its body is not part of the sources): a dict with
\* account_id and the envelope's status_code and error at top level.
get_account_id_by_bus_id(busId, b) ==
    LET r == call_dataverse(b, IF b.found /\ KnownBusId(busId)
                               THEN <<AccountOf(busId)>>
                               ELSE <<>>)
    IN  IF r.raised
        THEN [account_id |-> NA, status_code |-> None, error |-> Some(r.exc)]
        ELSE [account_id |-> IF r.env.value = <<>> THEN NA ELSE r.env.value[1],
              status_code |-> r.env.status_code,
              error |-> r.env.error]

-----------------------------------------------------------------------------
(* Batch driver: account_tasks.py *)

\* A row of the input table: the cells of the configured key columns in the
\* caller's priority order, the account_id cell and the note-id cell.
InputRows(k) ==
    [bus : {<<BusIds[k]>>, <<NA>>}, account_id : {NA, AccountIds[k]},
     note_id : {NA}]

InputTables ==
    {t \in [1..MaxRows -> UNION {InputRows(k) : k \in 1..MaxRows}] :
        \A k \in 1..MaxRows : t[k] \in InputRows(k)}

\* pd.notna(cell)
NotNa(cell) == cell # NA

\* `not account_id or pd.isna(account_id)`
\* Variant that takes every cell for an identifier.
NoAccountId_never(cell) == FALSE

NoAccountId(cell) == cell = "" \/ cell = NA

\* `pd.notna(row.get(account_id_column))`: the resolver skips such a row.
\* Variant that never skips.
HasAccountId_never(cell) == FALSE

HasAccountId(cell) == NotNa(cell)

\* A key cell that holds only a blank, and the bus ids as cells typed with
\* blanks around them.
BlankCell == " "

PaddedBusIds == <<" A ", " B ", " C ", " D ">>

\* str(cell).strip(), on the cells the tables of the model hold.
str_strip(cell) ==
    IF cell = BlankCell THEN ""
    ELSE IF \E k \in 1..Len(PaddedBusIds) : PaddedBusIds[k] = cell
    THEN BusIds[CHOOSE k \in 1..Len(PaddedBusIds) : PaddedBusIds[k] = cell]
    ELSE cell

\* The loop `for col in bus_id_columns: if ... pd.notna(row[col]):
\* bus_id_value = str(row[col]).strip(); break`: the first non-NA cell of the
\* key columns, trimmed (NA, i.e. None, when every cell is NA).
RECURSIVE FirstBusId(_)
FirstBusId(cells) ==
    IF cells = <<>> THEN NA
    ELSE IF NotNa(Head(cells)) THEN str_strip(Head(cells))
    ELSE FirstBusId(Tail(cells))

\* `if not bus_id_value`: the resolver has no key to query with.
\* Variant that takes any value, empty or None, for a key.
NoBusId_never(busId) == FALSE

NoBusId(busId) == busId = NA \/ busId = ""

\* bus_id_preview of the "not found" branch of call_deactivate_accounts:
\* `for col in bus_id_columns or []` looks at no column when the caller
\* passed no list.
BusIdPreview(cells, columns) ==
    IF columns = "given" THEN FirstBusId(cells) ELSE NA

\* The calls one operation made, tagged with the row they were made for;
\* `first` is the token use of its first call, the later ones find the token
\* that call cached.
CallsOf(row, ops, args, first) ==
    [k \in 1..Len(ops) |-> [row |-> row, op |-> ops[k], arg |-> args[k],
                            token |-> IF k = 1 THEN first ELSE "cached"]]

\* The input as the caller supplies it: a file name (which may not exist)
\* or an in-memory DataFrame.
Sources ==
    {[form |-> "path", exists |-> TRUE], [form |-> "path", exists |-> FALSE],
     [form |-> "frame", exists |-> TRUE]}

\* A table that has none of the configured key columns.
NoKeyColumnTable ==
    [k \in 1..MaxRows |-> [bus |-> <<>>, account_id |-> AccountIds[k],
                           note_id |-> NA]]

\* What _load_df yields for the source: nothing for a missing file,
\* otherwise a well-formed table, an empty one, or one without key columns.
LoadableTables(src) ==
    IF src.exists THEN InputTables \cup {<<>>, NoKeyColumnTable} ELSE {<<>>}

\* `any(col in df.columns for col in bus_id_columns)`
\* Variant that takes the columns for granted.
KeyColumnsPresent_unchecked(t) == TRUE

KeyColumnsPresent(t) == \E k \in 1..Len(t) : t[k].bus # <<>>

\* No function is being checked on its own.
NoCall == [fn |-> "none"]

Init ==
    /\ mode \in {"deactivate", "reactivate"}
    /\ source \in Sources
    /\ bus_id_columns = "given"
    /\ table \in LoadableTables(source)
    /\ df = [k \in 1..Len(table) |-> table[k].account_id]
    /\ pc = "load"
    /\ i = 1
    /\ results = <<>>
    /\ calls = <<>>
    /\ cached = FALSE
    /\ ckpt = None
    /\ report = None
    /\ returned = None
    /\ halted = {}
    /\ resumed = FALSE
    /\ doneBefore = {}
    /\ bResp = [status_code |-> None, error |-> None]
    /\ bOut = None
    /\ fnIn = NoCall
    /\ fnOut = None

\* Steps (1) and the entry of (2) of a driver: _load_df raises for a missing
\* file, the driver raises for an empty table, and the resolver raises before
\* its loop when none of the key columns is present.
LoadInput ==
    /\ pc = "load"
    /\ pc' = IF ~source.exists \/ table = <<>> \/ ~KeyColumnsPresent(table)
             THEN "failed"
             ELSE "resolve"
    /\ UNCHANGED <<mode, table, df, i, results, calls, cached, ckpt, report,
                   halted, resumed, doneBefore, bResp, bOut, source,
                   bus_id_columns, returned,
                   fnIn, fnOut>>

\* Leaving the resolver's loop (break or last row), which returns the copy
\* to the driver, or moving to the next row.
\* Variant without the break.
LeaveResolver_no_break(stop) ==
    IF i = Len(table)
    THEN pc' = "checkpoint" /\ i' = i
    ELSE pc' = "resolve" /\ i' = i + 1

LeaveResolver(stop) ==
    IF stop \/ i = Len(table)
    THEN pc' = "checkpoint" /\ i' = i
    ELSE pc' = "resolve" /\ i' = i + 1

\* One iteration of the loop of _resolve_account_ids_from_df.
ResolveRow ==
    /\ pc = "resolve"
    /\ LET busId == FirstBusId(table[i].bus)
           leave(stop) == LeaveResolver(stop)
       IN  IF HasAccountId(df[i]) \/ NoBusId(busId)
           THEN /\ leave(FALSE)
                /\ UNCHANGED <<df, calls, cached, halted>>
           ELSE \E b \in QueryBehaviours(cached) :
                    LET resp == get_account_id_by_bus_id(busId, b)
                        fatal == handle_expired_token(resp)
                    IN  /\ calls' = Append(calls, [row |-> i, op |-> "resolve",
                                                 arg |-> busId,
                                                 token |-> TokenUse(cached, b)])
                        /\ cached' = get_access_token_with_msal_default(cached, b)
                        /\ df' = IF fatal THEN df
                                 ELSE [df EXCEPT ![i] = resp.account_id]
                        /\ halted' = IF fatal THEN halted \cup {"resolver"}
                                     ELSE halted
                        /\ leave(fatal)
    /\ UNCHANGED <<mode, table, results, ckpt, report, resumed, doneBefore,
                   bResp, bOut, source, bus_id_columns, returned, fnIn, fnOut>>

\* _build_ids_output_path: the checkpoint's path, derived from the input's
\* path; None when the input was handed over as a DataFrame.
build_ids_output_path(src) ==
    IF src.form = "path" THEN Some("with_ids") ELSE None

\* The driver between the two loops: write the table with the identifiers
\* when there is a path to write it to.
SaveCheckpoint ==
    /\ pc = "checkpoint"
    /\ ckpt' = IF build_ids_output_path(source) # None THEN Some(df) ELSE ckpt
    /\ pc' = "loop"
    /\ i' = 1
    /\ UNCHANGED <<mode, table, df, results, calls, cached, report, halted,
                   resumed, doneBefore, bResp, bOut, source,
                   bus_id_columns, returned,
                   fnIn, fnOut>>

\* results.append({"bus_id": bus_id_value, **resp}); `row` is the index of
\* the input row the outcome was produced from (not a column of the report).
Outcome(row, busId, resp) == [row |-> row, bus_id |-> busId] @@ resp

\* Variant that appends and drops the breaker's verdict.
append_result_no_verdict(res, resp, busId, row) ==
    [results |-> Append(res, Outcome(row, busId, resp)), fatal |-> FALSE]

\* Variant that treats any error as a reason to stop.
append_result_halt_on_error(res, resp, busId, row) ==
    [results |-> Append(res, Outcome(row, busId, resp)),
     fatal |-> resp.error # None]

append_result_and_handle_token(res, resp, busId, row) ==
    [results |-> Append(res, Outcome(row, busId, resp)),
     fatal |-> handle_expired_token(resp)]

NotFoundDeactivate ==
    [account_id |-> NA, deactivated |-> FALSE, note_created |-> FALSE,
     error |-> Some(MsgNotFound), status_code |-> None,
     deactivate_response |-> None, note_response |-> None]

NotFoundReactivate ==
    [account_id |-> NA, reactivated |-> FALSE, note_deleted |-> FALSE,
     error |-> Some(MsgNotFound), status_code |-> None,
     reactivate_response |-> None, note_delete_response |-> None]

\* Leaving the row loop of a driver, or moving to the next row.
\* Variant that returns from the driver at the break, without saving.
LeaveLoop_return(stop) ==
    /\ halted' = IF stop THEN halted \cup {"loop"} ELSE halted
    /\ IF stop
       THEN pc' = "done" /\ i' = i
       ELSE IF i = Len(table)
            THEN pc' = "save" /\ i' = i
            ELSE pc' = "loop" /\ i' = i + 1

LeaveLoop(stop) ==
    /\ halted' = IF stop THEN halted \cup {"loop"} ELSE halted
    /\ IF stop \/ i = Len(table)
       THEN pc' = "save" /\ i' = i
       ELSE pc' = "loop" /\ i' = i + 1

\* One iteration of the row loop of call_deactivate_accounts.
DeactivateRow ==
    /\ pc = "loop"
    /\ mode = "deactivate"
    /\ LET busId == FirstBusId(table[i].bus)
       IN  IF NoAccountId(df[i])
           THEN /\ results' = Append(results,
                                     Outcome(i, BusIdPreview(table[i].bus,
                                                             bus_id_columns),
                                             NotFoundDeactivate))
                /\ LeaveLoop(FALSE)
                /\ UNCHANGED <<calls, cached>>
           ELSE \E b1 \in RemoteBehaviours(cached), b2 \in RemoteBehaviours(TRUE) :
                    LET op == deactivate_account_with_note(df[i], cached, b1, b2)
                        first == Append(results, Outcome(i, busId, op.out))
                        r == append_result_and_handle_token(first, op.out, busId, i)
                    IN  /\ results' = r.results
                        /\ calls' = calls \o CallsOf(i, op.ops, op.args,
                                                    TokenUse(cached, b1))
                        /\ cached' = op.cached
                        /\ LeaveLoop(r.fatal)
    /\ UNCHANGED <<mode, table, df, ckpt, report, resumed, doneBefore,
                   bResp, bOut, source, bus_id_columns, returned, fnIn, fnOut>>

\* One iteration of the row loop of call_reactivate_accounts.
ReactivateRow ==
    /\ pc = "loop"
    /\ mode = "reactivate"
    /\ LET busId == FirstBusId(table[i].bus)
       IN  IF NoAccountId(df[i])
           THEN /\ results' = Append(results, Outcome(i, busId, NotFoundReactivate))
                /\ LeaveLoop(FALSE)
                /\ UNCHANGED <<calls, cached>>
           ELSE \E b1 \in RemoteBehaviours(cached),
                   b2 \in QueryBehaviours(TRUE), b3 \in RemoteBehaviours(TRUE) :
                    LET op == reactivate_account_and_delete_note(
                                  df[i], table[i].note_id, cached, b1, b2, b3)
                        first == Append(results, Outcome(i, busId, op.out))
                        r == append_result_and_handle_token(first, op.out, busId, i)
                    IN  /\ results' = r.results
                        /\ calls' = calls \o CallsOf(i, op.ops, op.args,
                                                    TokenUse(cached, b1))
                        /\ cached' = op.cached
                        /\ LeaveLoop(r.fatal)
    /\ UNCHANGED <<mode, table, df, ckpt, report, resumed, doneBefore,
                   bResp, bOut, source, bus_id_columns, returned, fnIn, fnOut>>

\* _save_results_with_logging: what it writes to the report file and what
\* it hands back.
\* Variant that hands back the frame without its last row.
save_results_returns_truncated(resultsDf) ==
    [written |-> resultsDf,
     returned |-> SubSeq(resultsDf, 1, Len(resultsDf) - 1)]

save_results_with_logging(resultsDf) ==
    [written |-> resultsDf, returned |-> resultsDf]

\* The end of a driver: results_df = pd.DataFrame(results), saved and
\* returned.
SaveResults ==
    /\ pc = "save"
    /\ LET r == save_results_with_logging(results)
       IN  /\ report' = Some(r.written)
           /\ returned' = Some(r.returned)
    /\ pc' = "done"
    /\ UNCHANGED <<mode, table, df, i, results, calls, cached, ckpt, halted,
                   resumed, doneBefore, bResp, bOut, source,
                   bus_id_columns, fnIn, fnOut>>

\* The stages of an outcome both went through: the state-change call and the
\* note call each returned a success envelope.
Completed(o) ==
    IF mode = "deactivate"
    THEN /\ o.deactivate_response # None
         /\ Val(o.deactivate_response).status = "success"
         /\ o.note_response # None
         /\ Val(o.note_response).status = "success"
    ELSE /\ o.reactivate_response # None
         /\ Val(o.reactivate_response).status = "success"
         /\ o.note_delete_response # None
         /\ Val(o.note_delete_response).status = "success"

\* The operator re-authenticates and runs the same driver again in a new
\* process, on the checkpoint file the halted run wrote (_load_df reads it;
\* its account_id column is the one the resolver filled).
Rerun ==
    /\ pc = "done"
    /\ halted # {}
    /\ ~resumed
    /\ ckpt # None
    /\ resumed' = TRUE
    /\ doneBefore' = {results[k].row : k \in {j \in 1..Len(results) : Completed(results[j])}}
    /\ table' = [k \in 1..Len(table) |-> [table[k] EXCEPT !.account_id = Val(ckpt)[k]]]
    /\ df' = Val(ckpt)
    /\ source' = [form |-> "path", exists |-> TRUE]
    /\ pc' = "load"
    /\ i' = 1
    /\ results' = <<>>
    /\ calls' = <<>>
    /\ cached' = FALSE
    /\ ckpt' = None
    /\ report' = None
    /\ returned' = None
    /\ halted' = {}
    /\ UNCHANGED <<mode, bResp, bOut, bus_id_columns, fnIn, fnOut>>

\* main() of src/main.py and the interpreter around it: main calls the
\* driver, prints and falls off its end whenever the driver returns (exit
\* status 0); an exception the driver raises is not caught and ends the
\* process with a traceback (exit status 1).  {} while the driver is running.
main_exit_status(driverPc) ==
    IF driverPc = "done" THEN Some(0)
    ELSE IF driverPc = "failed" THEN Some(1)
    ELSE None

Next ==
    \/ LoadInput
    \/ ResolveRow
    \/ SaveCheckpoint
    \/ DeactivateRow
    \/ ReactivateRow
    \/ SaveResults
    \/ Rerun

Spec == Init /\ [][Next]_vars

\* One call of a driver: it is sequential code, so once entered it keeps
\* executing until it returns or raises.
DriverStep ==
    \/ LoadInput
    \/ ResolveRow
    \/ SaveCheckpoint
    \/ DeactivateRow
    \/ ReactivateRow
    \/ SaveResults

SpecLive == Init /\ [][DriverStep]_vars /\ WF_vars(DriverStep)

-----------------------------------------------------------------------------
(* Two rows, two key columns: what a cell of a DataFrame can hold *)

\* Row k when the caller names two key columns: the first may be NA, blank,
\* the row's key or that key typed with blanks; the second NA or another
\* key.  The identifier cell may be NA, the empty string or an identifier.
TwoColumnRows(k) ==
    [bus : {<<c1, c2>> : c1 \in {NA, BlankCell, BusIds[k], PaddedBusIds[k]},
                         c2 \in {NA, BusIds[k + 2]}},
     account_id : {NA, "", AccountIds[k]},
     note_id : {NA}]

\* Row k when the caller names no key column and "BUS ID" is the only one
\* looked at.
DefaultColumnRows(k) ==
    [bus : {<<c1>> : c1 \in {NA, BlankCell, BusIds[k], PaddedBusIds[k]}},
     account_id : {NA, "", AccountIds[k]},
     note_id : {NA}]

InitKeys ==
    /\ mode \in {"deactivate", "reactivate"}
    /\ source = [form |-> "frame", exists |-> TRUE]
    /\ bus_id_columns \in {"given", "default"}
    /\ table \in IF bus_id_columns = "given"
                 THEN {<<r1, r2>> : r1 \in TwoColumnRows(1),
                                    r2 \in TwoColumnRows(2)}
                 ELSE {<<r1, r2>> : r1 \in DefaultColumnRows(1),
                                    r2 \in DefaultColumnRows(2)}
    /\ df = [k \in 1..Len(table) |-> table[k].account_id]
    /\ pc = "load"
    /\ i = 1
    /\ results = <<>>
    /\ calls = <<>>
    /\ cached = FALSE
    /\ ckpt = None
    /\ report = None
    /\ returned = None
    /\ halted = {}
    /\ resumed = FALSE
    /\ doneBefore = {}
    /\ bResp = [status_code |-> None, error |-> None]
    /\ bOut = None
    /\ fnIn = NoCall
    /\ fnOut = None

SpecKeys == InitKeys /\ [][DriverStep]_vars

-----------------------------------------------------------------------------
(* The three-row deactivation scenario: keys A, B, C, no identifiers yet *)

InitScenario ==
    /\ mode = "deactivate"
    /\ table = [k \in 1..3 |-> [bus |-> <<BusIds[k]>>, account_id |-> NA,
                                 note_id |-> NA]]
    /\ df = [k \in 1..3 |-> NA]
    /\ pc = "resolve"
    /\ i = 1
    /\ results = <<>>
    /\ calls = <<>>
    /\ cached = FALSE
    /\ ckpt = None
    /\ report = None
    /\ halted = {}
    /\ resumed = FALSE
    /\ doneBefore = {}
    /\ bResp = [status_code |-> None, error |-> None]
    /\ bOut = None
    /\ source = [form |-> "path", exists |-> TRUE]
    /\ bus_id_columns = "given"
    /\ returned = None
    /\ fnIn = NoCall
    /\ fnOut = None

NextScenario ==
    \/ ResolveRow
    \/ SaveCheckpoint
    \/ DeactivateRow
    \/ SaveResults

SpecScenario == InitScenario /\ [][NextScenario]_vars

\* The same three rows when some of them already carry their identifier
\* (a file produced by an earlier run, or one prepared by hand).
InitWithIds ==
    /\ mode = "deactivate"
    /\ table \in {t \in [1..3 -> UNION {InputRows(k) : k \in 1..3}] :
                     \A k \in 1..3 : /\ t[k] \in InputRows(k)
                                      /\ t[k].bus = <<BusIds[k]>>}
    /\ df = [k \in 1..3 |-> table[k].account_id]
    /\ pc = "resolve"
    /\ i = 1
    /\ results = <<>>
    /\ calls = <<>>
    /\ cached = FALSE
    /\ ckpt = None
    /\ report = None
    /\ halted = {}
    /\ resumed = FALSE
    /\ doneBefore = {}
    /\ bResp = [status_code |-> None, error |-> None]
    /\ bOut = None
    /\ source = [form |-> "path", exists |-> TRUE]
    /\ bus_id_columns = "given"
    /\ returned = None
    /\ fnIn = NoCall
    /\ fnOut = None

SpecWithIds == InitWithIds /\ [][NextScenario]_vars

-----------------------------------------------------------------------------
(* The breaker as a pure function, over bounded results *)

BreakerChars == {"4", "0", "1", "x"}

BreakerTexts == UNION {[1..n -> BreakerChars] : n \in 0..MaxErrLen}

BreakerInputs ==
    [status_code : {None, Some(200), Some(401), Some(500)},
     error : {None} \cup {Some(t) : t \in BreakerTexts}]

InitBreaker ==
    /\ bResp \in BreakerInputs
    /\ bOut = None
    /\ mode = "deactivate"
    /\ table = <<>>
    /\ df = <<>>
    /\ pc = "idle"
    /\ i = 1
    /\ results = <<>>
    /\ calls = <<>>
    /\ cached = FALSE
    /\ ckpt = None
    /\ report = None
    /\ halted = {}
    /\ resumed = FALSE
    /\ doneBefore = {}
    /\ source = [form |-> "frame", exists |-> TRUE]
    /\ bus_id_columns = "given"
    /\ returned = None
    /\ fnIn = NoCall
    /\ fnOut = None

CheckBreaker ==
    /\ pc = "idle"
    /\ bOut = None
    /\ bOut' = Some(handle_expired_token(bResp))
    /\ UNCHANGED <<driverVars, bResp, fnIn, fnOut>>

NextBreaker == CheckBreaker

SpecBreaker == InitBreaker /\ [][NextBreaker]_vars

-----------------------------------------------------------------------------
(* Single functions, over every behaviour of the calls they make *)

\* Placeholder for the behaviour of a call the function never makes.
NoBehaviour ==
    [kind |-> "none", status |-> 0, found |-> FALSE, desc |-> <<>>,
     body_error |-> None]

\* The function, the note id passed to it, whether a token is cached when it
\* is entered, and the behaviours of its calls.  A call that follows one
\* that reached the record store finds the token cached.
PureInputs ==
    LET one(fns) ==
            {[fn |-> f, note |-> NA, cached |-> c, b1 |-> x,
              b2 |-> NoBehaviour, b3 |-> NoBehaviour] :
                f \in fns,
                c \in BOOLEAN,
                x \in GatewayBehaviours(FALSE)}
        ok(in) == in.cached => in.b1.kind # "token_fail"
    IN  {in \in one({"call_dataverse", "create_account_note",
                     "delete_note_by_id"}) : ok(in)}
        \cup {in \in [fn : {"deactivate_account_with_note"}, note : {NA},
                      cached : BOOLEAN, b1 : GatewayBehaviours(FALSE),
                      b2 : GatewayBehaviours(TRUE), b3 : {NoBehaviour}] : ok(in)}
        \cup {in \in [fn : {"reactivate_account_and_delete_note"},
                      note : {NA, NoteIds[2]},
                      cached : BOOLEAN, b1 : GatewayBehaviours(FALSE),
                      b2 : GatewayBehaviours(TRUE),
                      b3 : GatewayBehaviours(TRUE)] : ok(in)}

InitPure ==
    /\ fnIn \in PureInputs
    /\ fnOut = None
    /\ bResp = [status_code |-> None, error |-> None]
    /\ bOut = None
    /\ mode = "deactivate"
    /\ table = <<>>
    /\ df = <<>>
    /\ pc = "idle"
    /\ i = 1
    /\ results = <<>>
    /\ calls = <<>>
    /\ cached = FALSE
    /\ ckpt = None
    /\ report = None
    /\ halted = {}
    /\ resumed = FALSE
    /\ doneBefore = {}
    /\ source = [form |-> "frame", exists |-> TRUE]
    /\ bus_id_columns = "given"
    /\ returned = None

ApplyGateway ==
    /\ pc = "idle"
    /\ fnOut = None
    /\ fnIn.fn = "call_dataverse"
    /\ fnOut' = Some(call_dataverse(fnIn.b1, <<>>))
    /\ UNCHANGED <<driverVars, bResp, bOut, fnIn>>

ApplyNoteHelper ==
    /\ pc = "idle"
    /\ fnOut = None
    /\ fnIn.fn \in {"create_account_note", "delete_note_by_id"}
    /\ fnOut' = Some(IF fnIn.fn = "create_account_note"
                     THEN create_account_note(fnIn.b1)
                     ELSE delete_note_by_id(fnIn.b1))
    /\ UNCHANGED <<driverVars, bResp, bOut, fnIn>>

ApplyLifecycle ==
    /\ pc = "idle"
    /\ fnOut = None
    /\ fnIn.fn \in {"deactivate_account_with_note",
                     "reactivate_account_and_delete_note"}
    /\ fnOut' = Some(IF fnIn.fn = "deactivate_account_with_note"
                     THEN deactivate_account_with_note(
                              AccountIds[1], fnIn.cached, fnIn.b1, fnIn.b2)
                     ELSE reactivate_account_and_delete_note(
                              AccountIds[1], fnIn.note, fnIn.cached,
                              fnIn.b1, fnIn.b2, fnIn.b3))
    /\ UNCHANGED <<driverVars, bResp, bOut, fnIn>>

NextPure ==
    \/ ApplyGateway
    \/ ApplyNoteHelper
    \/ ApplyLifecycle

SpecPure == InitPure /\ [][NextPure]_vars

-----------------------------------------------------------------------------
(* The audit note from deactivation to reactivation *)

\* note_operations.py:4
DEACTIVATION_SIGNATURE ==
    <<"T","h","i","s"," ","a","c","c","o","u","n","t"," ","w","a","s"," ",
      "d","e","a","c","t","i","v","a","t","e","d"," ","o","n"," ">>

MsgBr == <<"<","b","r",">">>

MsgPerformedBy ==
    <<"A","c","t","i","o","n"," ","p","e","r","f","o","r","m","e","d"," ",
      "b","y",":"," ">>

\* str(None), which an f-string prints for an absent performed_by.
MsgNone == <<"N","o","n","e">>

\* note_body of deactivate_account_with_note: `f"{reason}<br>" if reason
\* else ""`, then f"Action performed by: {performed_by}<br>".
note_body(reason, performedBy) ==
    (IF reason # None /\ Val(reason) # <<>> THEN Val(reason) \o MsgBr ELSE <<>>)
    \o MsgPerformedBy
    \o (IF performedBy = None THEN MsgNone ELSE Val(performedBy))
    \o MsgBr

\* Reasons an operator passes: none, an empty one, a plain one, and one
\* that opens with the sentence the signature is taken from (src/main.py).
Reasons ==
    {None, Some(<<>>), Some(<<"o","l","d">>),
     Some(DEACTIVATION_SIGNATURE \o <<"M","a","y">>)}

Performers == {None, Some(<<"o","p">>)}

\* The server's answer to the lookup's query
\* `$filter=... and contains(notetext,'<signature>')` over the notes on the
\* account: whether any of them matches.
SignatureSearchFinds(notes) ==
    \E k \in 1..Len(notes) : StrContains(notes[k], DEACTIVATION_SIGNATURE)

RoundTripInputs ==
    [fn : {"note_round_trip"}, reason : Reasons, performed_by : Performers,
     b1 : RemoteBehaviours(FALSE), b2 : RemoteBehaviours(TRUE)]

InitRoundTrip ==
    /\ fnIn \in RoundTripInputs
    /\ fnOut = None
    /\ bResp = [status_code |-> None, error |-> None]
    /\ bOut = None
    /\ mode = "deactivate"
    /\ table = <<>>
    /\ df = <<>>
    /\ pc = "idle"
    /\ i = 1
    /\ results = <<>>
    /\ calls = <<>>
    /\ cached = FALSE
    /\ ckpt = None
    /\ report = None
    /\ halted = {}
    /\ resumed = FALSE
    /\ doneBefore = {}
    /\ source = [form |-> "frame", exists |-> TRUE]
    /\ bus_id_columns = "given"
    /\ returned = None

\* deactivate_account_with_note on an account without notes: the note is on
\* the account afterwards when the POST that creates it was made and
\* answered with a success status.
RoundTripDeactivate ==
    /\ pc = "idle"
    /\ fnOut = None
    /\ LET op == deactivate_account_with_note(AccountIds[1], FALSE,
                                              fnIn.b1, fnIn.b2)
           posted == /\ Len(op.ops) = 2
                     /\ Val(op.out.note_response).status = "success"
       IN  fnOut' = Some([stage |-> "deactivated",
                          notes |-> IF posted
                                    THEN <<note_body(fnIn.reason,
                                                     fnIn.performed_by)>>
                                    ELSE <<>>,
                          cached |-> op.cached,
                          out |-> op.out])
    /\ UNCHANGED <<driverVars, bResp, bOut, fnIn>>

\* reactivate_account_and_delete_note on the same account, no note
\* identifier supplied; the lookup's query is answered from the notes on the
\* account.
RoundTripReactivate ==
    /\ pc = "idle"
    /\ fnOut # None
    /\ Val(fnOut).stage = "deactivated"
    /\ \E b1 \in RemoteBehaviours(Val(fnOut).cached),
          b3 \in RemoteBehaviours(TRUE) :
           LET lookup == [kind |-> "http", status |-> 200,
                          found |-> SignatureSearchFinds(Val(fnOut).notes),
                          desc |-> <<>>, body_error |-> None]
               op == reactivate_account_and_delete_note(
                         AccountIds[1], NA, Val(fnOut).cached, b1, lookup, b3)
           IN  fnOut' = Some([stage |-> "reactivated",
                              notes |-> Val(fnOut).notes,
                              cached |-> op.cached,
                              out |-> op.out])
    /\ UNCHANGED <<driverVars, bResp, bOut, fnIn>>

NextRoundTrip ==
    \/ RoundTripDeactivate
    \/ RoundTripReactivate

SpecRoundTrip == InitRoundTrip /\ [][NextRoundTrip]_vars

-----------------------------------------------------------------------------
(* Claims *)

\* An outcome produced by a lifecycle operation (not a "not found" outcome).
IsLifecycle(o) == o.account_id # NA

\* The text contains "401" at some position.
Has401(text) ==
    \E k \in 1..(Len(text) - 2) :
        text[k] = "4" /\ text[k + 1] = "0" /\ text[k + 2] = "1"

\* C1: when a driver has finished, the outcome list holds one outcome per
\* input row in input order; after a halt in the row loop it holds one
\* outcome per row up to the halting row; no row contributes two outcomes.
CE_C1 ==
    pc = "done" =>
        /\ \A k \in 1..Len(results) : results[k].row = k
        /\ ("loop" \notin halted => Len(results) = Len(table))

\* C2: the breaker returns true exactly when status_code is 401 or the
\* error text contains "401"; false for an absent code with no error, for
\* code 200 and for an absent error.
Thm_C2 ==
    bOut # None =>
        (Val(bOut) <=>
            \/ bResp.status_code = Some(401)
            \/ (bResp.error # None /\ Has401(Val(bResp.error))))

W_C2 ==
    /\ bOut = Some(TRUE)
    /\ bResp.status_code = Some(200)
    /\ bResp.error = Some(<<"x", "4", "0", "1">>)

\* The text contains "4010" at some position.
Has4010(text) ==
    \E k \in 1..(Len(text) - 3) :
        text[k] = "4" /\ text[k + 1] = "0" /\ text[k + 2] = "1" /\ text[k + 3] = "0"

IsDecoy(resp) ==
    /\ resp.status_code # Some(401)
    /\ resp.error # None
    /\ Has4010(Val(resp.error))

\* C3 as stated: a result with a code other than 401 whose error text
\* contains "4010" does not trigger the breaker.
CE_C3 == (bOut # None /\ IsDecoy(bResp)) => Val(bOut) = FALSE

\* C3 amended: a result with a code other than 401 whose error text contains
\* "4010" triggers the breaker, because "4010" contains "401".
Thm_C3 == (bOut # None /\ IsDecoy(bResp)) => Val(bOut) = TRUE

W_C3 ==
    /\ bOut = Some(TRUE)
    /\ bResp.status_code = None
    /\ bResp.error = Some(S4010)

\* The state-change call of a deactivation outcome answered 401.
StateChange401(o) ==
    /\ o.deactivate_response # None
    /\ Val(o.deactivate_response).status_code = Some(401)

\* The scenario of the end-to-end test: A -> id1, B -> id2, C unmatched,
\* A fully succeeded, and B's state-change call answered 401.
ScenarioABC ==
    /\ df = <<"id1", "id2", NA>>
    /\ \E a, b \in 1..Len(results) :
          /\ results[a].row = 1 /\ Completed(results[a])
          /\ results[b].row = 2 /\ StateChange401(results[b])

\* C4: a 401 from the state-change call of row N halts the batch at row N:
\* its outcome carries an error, it is the last outcome, no later row is
\* reached; in the A, B, C scenario the report has exactly two outcomes.
CE_C4 ==
    /\ \A k \in 1..Len(results) :
          StateChange401(results[k]) =>
              /\ Truthy(results[k].error)
              /\ "loop" \in halted
              /\ \A j \in 1..Len(results) : results[j].row <= results[k].row
              /\ \A c \in 1..Len(calls) :
                    calls[c].op # "resolve" => calls[c].row <= results[k].row
    /\ (pc = "done" /\ ScenarioABC) =>
          /\ Len(Val(report)) = 2
          /\ Val(report)[1].row = 1
          /\ Val(report)[2].row = 2

\* C5: whenever the breaker classifies the lifecycle outcome of row N as
\* fatal, that outcome has been appended, the row loop has been left, no
\* outcome and no lifecycle Gateway call exists for a row after N, and the
\* outcomes gathered so far are what gets persisted.
Thm_C5 ==
    \A k \in 1..Len(results) :
        (IsLifecycle(results[k]) /\ handle_expired_token(results[k])) =>
            /\ pc \in {"save", "done"}
            /\ "loop" \in halted
            /\ \A j \in 1..Len(results) : results[j].row <= results[k].row
            /\ \A c \in 1..Len(calls) :
                  calls[c].op # "resolve" => calls[c].row <= results[k].row
            /\ pc = "done" => report = Some(results)

W_C5 ==
    /\ pc = "done"
    /\ "loop" \in halted
    /\ report = Some(results)
    /\ results # <<>>
    /\ results[Len(results)].row < Len(table)
    /\ handle_expired_token(results[Len(results)])

LifecycleOps == {"state_change", "note_create", "note_lookup", "note_delete"}

\* C6: if key resolution stopped on authentication expiry, no lifecycle
\* (state-change or note) Gateway call is issued for any row in that run.
CE_C6 ==
    "resolver" \in halted =>
        \A c \in 1..Len(calls) : calls[c].op \notin LifecycleOps

\* C7: the resolver issues no Gateway call for a row whose identifier cell
\* is already populated in its input, and leaves that identifier unchanged;
\* in particular on the rows a previous run resolved.
Thm_C7 ==
    \A k \in 1..Len(table) :
        NotNa(table[k].account_id) =>
            /\ df[k] = table[k].account_id
            /\ \A c \in 1..Len(calls) :
                  ~(calls[c].row = k /\ calls[c].op = "resolve")

\* A resumed run whose resolver pass is over: it skipped a row the earlier
\* run had resolved and queried another row.
W_C7 ==
    /\ resumed
    /\ pc = "checkpoint"
    /\ \E k \in 1..Len(table) : NotNa(table[k].account_id)
    /\ \E c \in 1..Len(calls) : calls[c].op = "resolve"

\* C8: in a run resumed from the files of a halted run, no state-change or
\* note call is issued for a row whose lifecycle operation completed in the
\* earlier run.
CE_C8 ==
    resumed =>
        \A c \in 1..Len(calls) :
            calls[c].row \in doneBefore => calls[c].op \notin LifecycleOps

\* The note-creation call of a deactivation outcome failed: the helper
\* returned something other than a success envelope.
NoteCreateFailed(o) ==
    /\ o.note_response # None
    /\ Val(o.note_response).status # "success"

\* C9: when the state-change call succeeds and the note-creation call
\* fails, the outcome has deactivated = true, note_created = false and a
\* non-empty error; a state-change call that raised leaves both flags false.
CE_C9 ==
    mode = "deactivate" =>
        \A k \in 1..Len(results) :
            LET o == results[k]
            IN  /\ (/\ IsLifecycle(o)
                    /\ o.deactivate_response # None
                    /\ Val(o.deactivate_response).status = "success"
                    /\ NoteCreateFailed(o))
                   => (o.deactivated /\ ~o.note_created /\ Truthy(o.error))
                /\ (IsLifecycle(o) /\ o.deactivate_response = None)
                   => (~o.deactivated /\ ~o.note_created /\ Truthy(o.error))

\* The envelope (if any) is an error envelope.
IsErrorEnvelope(resp) == resp # None /\ Val(resp).status = "error"

\* C10: a state-change call that returns an error envelope leaves the stage
\* flag (deactivated / reactivated) false with a non-empty error; a failed
\* note create / delete leaves note_created / note_deleted false with a
\* non-empty error.
CE_C10 ==
    \A k \in 1..Len(results) :
        LET o == results[k]
        IN  IF mode = "deactivate"
            THEN /\ IsErrorEnvelope(o.deactivate_response)
                    => (~o.deactivated /\ Truthy(o.error))
                 /\ IsErrorEnvelope(o.note_response)
                    => (~o.note_created /\ Truthy(o.error))
            ELSE /\ IsErrorEnvelope(o.reactivate_response)
                    => (~o.reactivated /\ Truthy(o.error))
                 /\ IsErrorEnvelope(o.note_delete_response)
                    => (~o.note_deleted /\ Truthy(o.error))

\* The lookup's query comes back with a matching note.
LookupFinds(b) == b.kind = "http" /\ b.status < 400 /\ b.found

\* C11: reactivate_account_and_delete_note with no note identifier, whose
\* lookup (issued once the state-change call has returned) finds no note,
\* returns reactivated = true, note_deleted = false, error = null and issues
\* no delete call.
Thm_C11 ==
    (/\ fnOut # None
     /\ fnIn.fn = "reactivate_account_and_delete_note"
     /\ fnIn.note = NA
     /\ fnIn.b1.kind # "token_fail"
     /\ ~LookupFinds(fnIn.b2))
    => LET r == Val(fnOut)
       IN  /\ r.out.reactivated
           /\ ~r.out.note_deleted
           /\ r.out.error = None
           /\ r.ops = <<"state_change", "note_lookup">>

W_C11 ==
    /\ fnOut # None
    /\ fnIn.fn = "reactivate_account_and_delete_note"
    /\ fnIn.note = NA
    /\ fnIn.b1.kind = "http" /\ fnIn.b1.status = 200
    /\ fnIn.b2.kind = "http" /\ fnIn.b2.status = 200 /\ ~fnIn.b2.found
    /\ Val(fnOut).out.reactivated
    /\ ~Val(fnOut).out.note_deleted

\* C12: every run that gets past input loading reaches the driver's return,
\* completed or halted on authentication expiry (in the resolver, in the row
\* loop, or both), and at the return the report holds every outcome
\* collected; nothing is returned before the report is written.
Thm_C12 ==
    /\ [](pc = "done" => report = Some(results) /\ returned # None)
    /\ [](returned # None => report # None)
    /\ ((pc = "resolve") ~> (pc = "done"))

W_C12 ==
    /\ pc = "done"
    /\ halted = {"resolver", "loop"}
    /\ report = Some(results)
    /\ results # <<>>

\* The row loop has dealt with row r.
Processed(r) ==
    \/ pc = "loop" /\ r < i
    \/ pc \in {"save", "done"} /\ r <= i

OutcomesOf(r) == {k \in 1..Len(results) : results[k].row = r}

\* C13: a row whose identifier cell is still empty after key resolution gets
\* exactly one outcome, the "not found" one (account_id null, both stage
\* flags false, error "accountid not found"); no lifecycle call is made for
\* it; and the loop does not stop at it while rows remain.
Thm_C13 ==
    \A r \in 1..Len(table) :
        (Processed(r) /\ df[r] \in {NA, ""})
        => /\ Cardinality(OutcomesOf(r)) = 1
           /\ \A k \in OutcomesOf(r) :
                  results[k] = Outcome(r, FirstBusId(table[r].bus),
                                       IF mode = "deactivate"
                                       THEN NotFoundDeactivate
                                       ELSE NotFoundReactivate)
           /\ \A k \in 1..Len(calls) :
                  calls[k].row = r => calls[k].op = "resolve"
           /\ r < Len(table) => ~(pc \in {"save", "done"} /\ i = r)

W_C13 ==
    /\ pc = "done"
    /\ mode = "deactivate"
    /\ Len(table) >= 2
    /\ df[1] = NA
    /\ i = Len(table)
    /\ Len(results) >= 2
    /\ results[1].error = Some(MsgNotFound)
    /\ ~results[1].deactivated
    /\ \E k \in 1..Len(calls) : calls[k].row = 2 /\ calls[k].op = "state_change"

\* The input is one the drivers reject: the file is missing, the table has
\* no rows, or no row carries a cell of a configured key column.
InputError ==
    \/ ~source.exists
    \/ table = <<>>
    \/ \A k \in 1..Len(table) : table[k].bus = <<>>

\* C14: a run on a missing file, an empty table or a table without any of
\* the key columns ends in the raised error: it never enters the resolver,
\* makes no Gateway call and writes neither the checkpoint nor the report.
Thm_C14 ==
    InputError
    => /\ pc \in {"load", "failed"}
       /\ calls = <<>>
       /\ ~cached
       /\ ckpt = None
       /\ report = None
       /\ returned = None

W_C14 ==
    /\ pc = "failed"
    /\ source.exists
    /\ table = NoKeyColumnTable
    /\ calls = <<>>
    /\ ckpt = None

\* C15: for every behaviour of the Gateway in either stage, both lifecycle
\* operations return an outcome and raise nothing; the one exception that
\* can reach them (the token request failing on the state-change call) is
\* the text of the outcome's error field, and otherwise the field is null.
Thm_C15 ==
    (fnOut # None /\ fnIn.fn \in {"deactivate_account_with_note",
                                  "reactivate_account_and_delete_note"})
    => LET r == Val(fnOut)
       IN  /\ ~r.raised
           /\ r.out.account_id = AccountIds[1]
           /\ IF fnIn.b1.kind = "token_fail"
              THEN r.out.error = Some(MsgTokenError \o fnIn.b1.desc)
              ELSE r.out.error = None

W_C15 ==
    /\ fnOut # None
    /\ fnIn.fn = "deactivate_account_with_note"
    /\ fnIn.b1.kind = "token_fail"
    /\ ~Val(fnOut).raised
    /\ ~Val(fnOut).out.deactivated
    /\ Val(fnOut).out.error # None

\* Row n went through the lifecycle operation and its outcome carries an
\* error the breaker does not classify as authentication expiry.
NonFatalFailure(n) ==
    \E k \in OutcomesOf(n) :
        /\ results[k].account_id # NA
        /\ results[k].error # None
        /\ ~handle_expired_token(results[k])

FatalOutcome(n) ==
    \E k \in OutcomesOf(n) : handle_expired_token(results[k])

\* C16 as stated: once the driver has returned, every row after a row with a
\* non-fatal lifecycle failure has its outcome.
CE_C16 ==
    pc = "done"
    => \A n \in 1..Len(table) :
           NonFatalFailure(n)
           => \A m \in (n + 1)..Len(table) : OutcomesOf(m) # {}

\* C16, amended: the batch does not stop at a row with a non-fatal lifecycle
\* failure, the next row is processed, and once the driver has returned a
\* later row lacks its outcome only if a row between the two has an outcome
\* classified as authentication expiry (the batch halted there).
Thm_C16 ==
    \A n \in 1..Len(table) :
        (Processed(n) /\ NonFatalFailure(n) /\ n < Len(table))
        => /\ ~(pc \in {"save", "done"} /\ i = n)
           /\ pc = "done"
              => /\ OutcomesOf(n + 1) # {}
                 /\ \A m \in (n + 1)..Len(table) :
                        OutcomesOf(m) = {}
                        => \E h \in (n + 1)..(m - 1) : FatalOutcome(h)

W_C16 ==
    /\ pc = "done"
    /\ NonFatalFailure(1)
    /\ NonFatalFailure(2)
    /\ ~FatalOutcome(2)
    /\ OutcomesOf(3) # {}

\* C17: once the resolver pass is over the checkpoint holds the table with
\* every identifier resolved in the pass, whatever form the input came in,
\* and no lifecycle call is made before it is written.
CE_C17 ==
    /\ pc \in {"loop", "save", "done"} => ckpt = Some(df)
    /\ (\E k \in 1..Len(calls) : calls[k].op \in LifecycleOps) => ckpt # None

\* C18: what the driver returns is the outcome list it wrote to the report:
\* the same outcomes in the same order, and the list collected by the loop
\* with nothing appended or changed in between.
Thm_C18 ==
    pc = "done"
    => /\ returned # None
       /\ returned = report
       /\ Val(returned) = results

W_C18 ==
    /\ pc = "done"
    /\ returned = report
    /\ Len(Val(returned)) >= 2
    /\ Val(returned)[1].row # Val(returned)[Len(Val(returned))].row

\* C19: call_dataverse raises for no failure mode (HTTP error status,
\* transport error, unsupported method, token request failing): it always
\* returns an envelope whose status is "success" or "error".
CE_C19 ==
    (fnOut # None /\ fnIn.fn = "call_dataverse")
    => /\ ~Val(fnOut).raised
       /\ Val(fnOut).env.status \in {"success", "error"}

\* status == "error" exactly when the error field is non-empty.
StatusMatchesError(e) ==
    (e.status = "error") <=> (e.error # None /\ Val(e.error) # <<>>)

\* C20: every envelope a Gateway call returns, from call_dataverse itself or
\* from a note helper (its own except branch included), has status "error"
\* if and only if its error field is non-empty.
CE_C20 ==
    fnOut # None
    => /\ (fnIn.fn = "call_dataverse" /\ ~Val(fnOut).raised)
          => StatusMatchesError(Val(fnOut).env)
       /\ fnIn.fn \in {"create_account_note", "delete_note_by_id"}
          => StatusMatchesError(Val(fnOut))

\* C21: the process exits with 0 when the batch completed, with a non-zero
\* status when it halted on authentication expiry, and with another
\* non-zero status when input loading failed.
CE_C21 ==
    LET status == main_exit_status(pc)
    IN  status # None
        => /\ (pc = "done" /\ halted = {}) => status = Some(0)
           /\ (pc = "done" /\ halted # {})
              => status \notin {Some(0), main_exit_status("failed")}
           /\ pc = "failed" => status # Some(0)

\* The value of the first key cell that is non-empty once trimmed (NA when
\* the row has none): the natural key of the row.
RECURSIVE FirstNonEmptyKey(_)
FirstNonEmptyKey(cells) ==
    IF cells = <<>> THEN NA
    ELSE IF Head(cells) # NA /\ str_strip(Head(cells)) # ""
    THEN str_strip(Head(cells))
    ELSE FirstNonEmptyKey(Tail(cells))

\* The resolver pass is over and was not cut short.
ResolverPassed ==
    /\ pc \in {"checkpoint", "loop", "save", "done"}
    /\ "resolver" \notin halted

\* C22: every resolver query carries the trimmed value of the first key
\* column that is non-empty for its row, and every row without an identifier
\* that has such a value is queried with it, falling through empty earlier
\* columns.
CE_C22 ==
    /\ \A c \in 1..Len(calls) :
           calls[c].op = "resolve"
           => calls[c].arg = FirstNonEmptyKey(table[calls[c].row].bus)
    /\ ResolverPassed
       => \A r \in 1..Len(table) :
              (table[r].account_id = NA /\ FirstNonEmptyKey(table[r].bus) # NA)
              => \E c \in 1..Len(calls) :
                     /\ calls[c].op = "resolve"
                     /\ calls[c].row = r
                     /\ calls[c].arg = FirstNonEmptyKey(table[r].bus)

\* The resolver's loop has dealt with row r.
ResolverDone(r) ==
    \/ pc = "resolve" /\ r < i
    \/ pc \in {"checkpoint", "loop", "save", "done"}

\* C23: a row with no natural key in any key column gets no resolver query
\* and keeps the identifier cell it had (null stays null); the pass does
\* not stop at it, and unless a later query halts the pass every later row
\* that lacks an identifier and has a key is queried.
Thm_C23 ==
    \A r \in 1..Len(table) :
        (ResolverDone(r) /\ FirstNonEmptyKey(table[r].bus) = NA)
        => /\ \A c \in 1..Len(calls) :
                  ~(calls[c].op = "resolve" /\ calls[c].row = r)
           /\ df[r] = table[r].account_id
           /\ r < Len(table) => ~(pc = "checkpoint" /\ i = r)
           /\ ResolverPassed
              => \A m \in (r + 1)..Len(table) :
                     (table[m].account_id = NA
                      /\ FirstBusId(table[m].bus) \notin {NA, ""})
                     => \E c \in 1..Len(calls) :
                            calls[c].op = "resolve" /\ calls[c].row = m

W_C23 ==
    /\ pc = "done"
    /\ table[1].bus = <<BlankCell, NA>>
    /\ table[1].account_id = NA
    /\ df[1] = NA
    /\ table[2].account_id = NA
    /\ df[2] = AccountIds[2]
    /\ \E c \in 1..Len(calls) : calls[c].op = "resolve" /\ calls[c].row = 2
    /\ \A c \in 1..Len(calls) : calls[c].row # 1

\* C24: the step in which the resolver's query for row N is classified as
\* authentication expiry makes that one call, leaves the loop with every
\* identifier cell as it was before the step, and hands the rows to the
\* driver; from then on no resolver query is made and no cell changes; and
\* a resolver step never touches the cell of another row.
Thm_C24 ==
    [][/\ (pc = "resolve" /\ "resolver" \notin halted /\ "resolver" \in halted')
          => /\ pc' = "checkpoint"
             /\ i' = i
             /\ df' = df
             /\ calls' = Append(calls, calls'[Len(calls')])
             /\ calls'[Len(calls')].row = i
       /\ ("resolver" \in halted /\ "resolver" \in halted')
          => /\ df' = df
             /\ pc' # "failed"
             /\ \A c \in (Len(calls) + 1)..Len(calls') :
                    calls'[c].op # "resolve"
       /\ pc = "resolve"
          => \A r \in 1..Len(df) : r # i => df'[r] = df[r]
      ]_vars

W_C24 ==
    /\ pc = "checkpoint"
    /\ "resolver" \in halted
    /\ i = 2
    /\ Len(table) > 2
    /\ df[1] = AccountIds[1]
    /\ df[2] = NA
    /\ Len(calls) = 2

\* C25: once a resolver pass has run to its end, every row whose identifier
\* cell was null or the empty string and whose first filled key cell holds
\* a key has been queried, and no row with a non-empty identifier has been
\* queried or changed.
CE_C25 ==
    ResolverPassed
    => \A r \in 1..Len(table) :
           IF table[r].account_id \in {NA, ""}
           THEN FirstBusId(table[r].bus) \notin {NA, ""}
                => \E c \in 1..Len(calls) :
                       calls[c].op = "resolve" /\ calls[c].row = r
           ELSE /\ df[r] = table[r].account_id
                /\ \A c \in 1..Len(calls) :
                       ~(calls[c].op = "resolve" /\ calls[c].row = r)

\* C26: the note deactivate_account_with_note creates contains the
\* deactivation signature whatever the reason, and a later
\* reactivate_account_and_delete_note without a note identifier, once its
\* state-change call has returned, finds that note and reports
\* note_deleted = true.
CE_C26 ==
    (fnOut # None /\ Val(fnOut).notes # <<>>)
    => /\ StrContains(Val(fnOut).notes[1], DEACTIVATION_SIGNATURE)
       /\ (Val(fnOut).stage = "reactivated" /\ Val(fnOut).out.reactivated)
          => Val(fnOut).out.note_deleted

CallsFor(r, op) == {c \in 1..Len(calls) : calls[c].row = r /\ calls[c].op = op}

\* C28: within one run no row gets more than one resolver query or more than
\* one state-change call, and each row the row loop has dealt with that
\* carries an identifier got exactly one state-change call, whatever the
\* Gateway answered.
Thm_C28 ==
    \A r \in 1..Len(table) :
        /\ Cardinality(CallsFor(r, "resolve")) <= 1
        /\ Cardinality(CallsFor(r, "state_change")) <= 1
        /\ (Processed(r) /\ df[r] \notin {NA, ""})
           => Cardinality(CallsFor(r, "state_change")) = 1

W_C28 ==
    /\ pc = "done"
    /\ mode = "deactivate"
    /\ Cardinality(CallsFor(1, "resolve")) = 1
    /\ Cardinality(CallsFor(1, "state_change")) = 1
    /\ \E k \in OutcomesOf(1) :
           /\ results[k].deactivate_response # None
           /\ Val(results[k].deactivate_response).status_code = Some(401)

\* C29: every outcome produced from a row that has a natural key carries
\* that key (the first non-empty key value of the row) as its bus_id, for
\* lifecycle and "not found" outcomes, with the key columns named by the
\* caller or defaulted.
CE_C29 ==
    \A k \in 1..Len(results) :
        FirstNonEmptyKey(table[results[k].row].bus) # NA
        => results[k].bus_id = FirstNonEmptyKey(table[results[k].row].bus)

\* A driver step, as opposed to starting a new process on the files of the
\* halted run.
SameProcess == ~(pc = "done" /\ pc' = "load")

\* C30: within a process the token cache, once filled, stays filled, and
\* once a call has presented a token every later call of the run presents
\* the cached one: none acquires a new token and none fails to get one,
\* also after a call was answered with 401.
Thm_C30 ==
    /\ [][(cached /\ SameProcess) => cached']_vars
    /\ [](\A c \in 1..Len(calls) : \A e \in 1..Len(calls) :
              (c < e /\ calls[c].token # "failed") => calls[e].token = "cached")

W_C30 ==
    /\ mode = "deactivate"
    /\ pc = "done"
    /\ \E k \in OutcomesOf(1) :
           /\ results[k].deactivate_response # None
           /\ Val(results[k].deactivate_response).status_code = Some(401)
    /\ \E c \in 1..Len(calls) :
           /\ calls[c].row = 2
           /\ calls[c].op = "state_change"
           /\ calls[c].token = "cached"

====
